---- MODULE Spec2Model ----
(***************************************************************************)
(* Model of sbom-web (src/src/sbom-web/app.py): the CycloneDX XML          *)
(* interpreter parse_cyclonedx_xml, the SPDX path parse_spdx with its      *)
(* staging file, and the upload dispatcher upload_sbom.                    *)
(*                                                                         *)
(* Representation of Python values:                                        *)
(*   - a str is a sequence of tokens (each token a piece of the string     *)
(*     that the code never looks inside): "{uri}bom" is                    *)
(*     <<"{", uri, "}", "bom">>, "a.XML" is <<"a", ".", "XML">>, and       *)
(*     " libx " is <<" ", "libx", " ">>; "" is <<>>.                       *)
(*   - an Optional value is None == <<>> or Some(v) == <<v>>.              *)
(*   - an attribute value is a TLA+ string ("" is the empty attribute).    *)
(*   - an XML element is [tag, attrib, text, children] as ElementTree      *)
(*     builds it; attrib maps every attribute name the code reads to an    *)
(*     Optional value (None: the attribute is absent).                     *)
(***************************************************************************)
EXTENDS Integers, Sequences, FiniteSets, TLC

VARIABLES
    pc,          \* per request: where upload_sbom / parse_spdx stands
    filename,    \* per request: `filename` of upload_sbom
    content,     \* per request: `content` of upload_sbom
    response,    \* per request: what upload_sbom returned or raised
    fs,          \* the staging directory: a set of files [path, data, writer]
    tmp_name,    \* per request: tmp.name / tmp_path of parse_spdx
    spdx_out,    \* per request: the pending outcome of parse_spdx's try block
    cdx_out,     \* history: the outcome of the request's parse_cyclonedx_xml call
    spdx_args,   \* history: the arguments parse_spdx was invoked with
    created,     \* history: how many staging files the request created
    file_read,   \* history: the file the request's parse_file read
    removed,     \* history: the writers of the files the request removed
    xml_bytes,   \* SpecParse: the argument of parse_cyclonedx_xml
    cdx_ret      \* SpecParse: its outcome ("pending" before the call)

upload_vars == <<pc, filename, content, response, fs, tmp_name, spdx_out,
                 cdx_out, spdx_args, created, file_read, removed>>
parse_vars == <<xml_bytes, cdx_ret>>
vars == <<upload_vars, parse_vars>>

----------------------------------------------------------------------------
(* Bounds of the model *)

MaxTextLen == 3      \* longest text node, in tokens
MaxItems == 2        \* longest list of sibling elements drawn from a core set
MaxRequests == 2     \* concurrent uploads (SpecConcurrent)
MaxStems == 2        \* random file-name stems tempfile can draw

----------------------------------------------------------------------------
(* Python values *)

None == <<>>
Some(v) == <<v>>
IsNone(o) == Len(o) = 0

\* truthiness of an Optional[str]: None and "" are falsy
truthy(o) == Len(o) = 1 /\ Len(o[1]) > 0

\* truthiness of an Optional attribute value
attr_truthy(o) == Len(o) = 1 /\ o[1] # ""

\* Python's `a or b`
py_or(a, b) == IF truthy(a) THEN a ELSE b

Whitespace == {" ", "\t", "\n", "\r"}

SetMin(S) == CHOOSE m \in S : \A k \in S : m <= k
SetMax(S) == CHOOSE m \in S : \A k \in S : m >= k

\* str.strip(): the string without its leading and trailing whitespace
strip(s) ==
    LET keep == {i \in 1..Len(s) : s[i] \notin Whitespace}
    IN  IF keep = {} THEN <<>> ELSE SubSeq(s, SetMin(keep), SetMax(keep))

\* all sequences over S of length at most n
SeqsUpTo(S, n) == UNION {[1..k -> S] : k \in 0..n}

----------------------------------------------------------------------------
(* The requests; before any upload nothing is staged *)

Requests == 1..MaxRequests

InitUploads ==
    /\ pc = [r \in Requests |-> "idle"]
    /\ filename = [r \in Requests |-> None]
    /\ content = [r \in Requests |-> None]
    /\ response = [r \in Requests |-> None]
    /\ fs = {}
    /\ tmp_name = [r \in Requests |-> None]
    /\ spdx_out = [r \in Requests |-> None]
    /\ cdx_out = [r \in Requests |-> None]
    /\ spdx_args = [r \in Requests |-> None]
    /\ created = [r \in Requests |-> 0]
    /\ file_read = [r \in Requests |-> None]
    /\ removed = [r \in Requests |-> {}]

----------------------------------------------------------------------------
(* XML trees as xml.etree.ElementTree builds them *)

AttrNames == {"serialNumber", "version", "type", "bom-ref", "ref"}
NoAttrib == [a \in AttrNames |-> None]

El(tag, attrib, text, children) ==
    [tag |-> tag, attrib |-> attrib, text |-> text, children |-> children]

\* Element.attrib.get(key)
attrib_get(el, key) == el.attrib[key]

\* _strip_ns: "{namespace}tag" -> "tag" (split at the first "}")
_strip_ns(tag) ==
    IF \E i \in 1..Len(tag) : tag[i] = "}"
    THEN LET first == SetMin({i \in 1..Len(tag) : tag[i] = "}"})
         IN  SubSeq(tag, first + 1, Len(tag))
    ELSE tag

\* find_children: the direct children whose local name is `name`, in order
find_children(parent, name) ==
    SelectSeq(parent.children, LAMBDA ch : _strip_ns(ch.tag) = <<name>>)

\* find_child: the first direct child whose local name is `name`, or None
find_child(parent, name) ==
    IF \E i \in 1..Len(parent.children) : _strip_ns(parent.children[i].tag) = <<name>>
    THEN LET first == SetMin({i \in 1..Len(parent.children) :
                                 _strip_ns(parent.children[i].tag) = <<name>>})
         IN  Some(parent.children[first])
    ELSE None

\* `el.text.strip() if el is not None and el.text else None`
text_or_none(el) ==
    IF ~IsNone(el) /\ truthy(el[1].text) THEN Some(strip(el[1].text[1])) ELSE None

----------------------------------------------------------------------------
(* parse_cyclonedx_xml *)

LicenseTextPlaceholder == <<"(license text)">>

\* lines 122-129: one entry of tool_list
tool_view(tool) ==
    [vendor  |-> text_or_none(find_child(tool, "vendor")),
     name    |-> text_or_none(find_child(tool, "name")),
     version |-> text_or_none(find_child(tool, "version"))]

\* lines 118-129
tool_list(tools) ==
    IF IsNone(tools) THEN <<>>
    ELSE LET ts == find_children(tools[1], "tool")
         IN  [i \in 1..Len(ts) |-> tool_view(ts[i])]

\* lines 131-142: md_comp_obj
md_comp_obj(md_component) ==
    IF IsNone(md_component) THEN None
    ELSE Some(("type" :> attrib_get(md_component[1], "type"))
              @@ ("bom-ref" :> attrib_get(md_component[1], "bom-ref"))
              @@ ("name" :> text_or_none(find_child(md_component[1], "name")))
              @@ ("version" :> text_or_none(find_child(md_component[1], "version")))
              @@ ("purl" :> text_or_none(find_child(md_component[1], "purl"))))

\* lines 96, 112-148: bom_info["metadata"]; {} when there is no metadata element
metadata_view(bom) ==
    LET md == find_child(bom, "metadata")
    IN  IF IsNone(md) THEN <<>>
        ELSE [timestamp |-> text_or_none(find_child(md[1], "timestamp")),
              tools     |-> tool_list(find_child(md[1], "tools")),
              component |-> md_comp_obj(find_child(md[1], "component"))]

\* the slip of trying the name before the id
license_entry_name_first(licwrap) ==
    py_or(py_or(text_or_none(find_child(licwrap, "name")),
                text_or_none(find_child(licwrap, "id"))),
          IF ~IsNone(find_child(licwrap, "text"))
          THEN Some(LicenseTextPlaceholder) ELSE None)

\* lines 164-171: the value appended to licenses_out for one <license>
license_entry(licwrap) ==
    py_or(py_or(text_or_none(find_child(licwrap, "id")),
                text_or_none(find_child(licwrap, "name"))),
          IF ~IsNone(find_child(licwrap, "text"))
          THEN Some(LicenseTextPlaceholder) ELSE None)

\* lines 160-171 and 179: [x for x in licenses_out if x]
licenses_view(c) ==
    LET licenses_el == find_child(c, "licenses")
    IN  IF IsNone(licenses_el) THEN <<>>
        ELSE LET ls == find_children(licenses_el[1], "license")
                 licenses_out == [i \in 1..Len(ls) |-> license_entry(ls[i])]
                 kept == SelectSeq(licenses_out, truthy)
             IN  [i \in 1..Len(kept) |-> kept[i][1]]

\* lines 173-180: one entry of components_out
component_view(c) ==
    ("type" :> attrib_get(c, "type"))
    @@ ("bom-ref" :> attrib_get(c, "bom-ref"))
    @@ ("name" :> text_or_none(find_child(c, "name")))
    @@ ("version" :> text_or_none(find_child(c, "version")))
    @@ ("purl" :> text_or_none(find_child(c, "purl")))
    @@ ("licenses" :> licenses_view(c))

\* lines 150-182
components_view(bom) ==
    LET comps == find_child(bom, "components")
    IN  IF IsNone(comps) THEN <<>>
        ELSE LET cs == find_children(comps[1], "component")
             IN  [i \in 1..Len(cs) |-> component_view(cs[i])]

\* the slip of testing `is not None` instead of truthiness
depends_on_any_ref(dep) ==
    LET ds == find_children(dep, "dependency")
        kept == SelectSeq(ds, LAMBDA d : ~IsNone(attrib_get(d, "ref")))
    IN  [i \in 1..Len(kept) |-> attrib_get(kept[i], "ref")[1]]

\* line 190: the refs of the nested <dependency> children that pass `if ref`
depends_on(dep) ==
    LET ds == find_children(dep, "dependency")
        kept == SelectSeq(ds, LAMBDA d : attr_truthy(attrib_get(d, "ref")))
    IN  [i \in 1..Len(kept) |-> attrib_get(kept[i], "ref")[1]]

\* lines 184-193
dependencies_view(bom) ==
    LET deps == find_child(bom, "dependencies")
    IN  IF IsNone(deps) THEN <<>>
        ELSE LET ds == find_children(deps[1], "dependency")
             IN  [i \in 1..Len(ds) |->
                    [ref |-> attrib_get(ds[i], "ref"), dependsOn |-> depends_on(ds[i])]]

\* lines 93-99, 144, 182, 193: bom_info
bom_info(bom) ==
    [serialNumber |-> attrib_get(bom, "serialNumber"),
     version      |-> attrib_get(bom, "version"),
     metadata     |-> metadata_view(bom),
     components   |-> components_view(bom),
     dependencies |-> dependencies_view(bom)]

(* An upload's bytes, by what the XML parser makes of them:                *)
(*   size     : len(content)                                               *)
(*   encoding : the encoding the XML declaration names                     *)
(*   doc      : Some(root element) for well-formed markup, None otherwise  *)
Bytes(size, encoding, doc) == [size |-> size, encoding |-> encoding, doc |-> doc]

\* encodings expat (and so ET.fromstring) decodes; any multi-byte or unknown
\* encoding makes it raise ValueError / LookupError, not ET.ParseError
SupportedEncodings == {"utf-8"}

Return(v) == [kind |-> "return", value |-> v]
Raise(exc, status, detail) ==
    [kind |-> "raise", exc |-> exc, status |-> status, detail |-> detail]

\* ET.fromstring(xml_bytes)
ET_fromstring(b) ==
    IF b.encoding \notin SupportedEncodings
    THEN Raise("ValueError", 0, "multi-byte encodings are not supported")
    ELSE IF IsNone(b.doc)
    THEN Raise("ParseError", 0, "syntax error")
    ELSE Return(b.doc[1])

DetailParseError == "XML parse failed: syntax error"
DetailNotBom == "root is not a CycloneDX <bom>"

\* parse_cyclonedx_xml, lines 75-194
parse_cyclonedx_xml(b) ==
    LET parsed == ET_fromstring(b)
    IN  IF parsed.kind = "raise"
        THEN IF parsed.exc = "ParseError"
             THEN Raise("HTTPException", 400, DetailParseError)
             ELSE parsed
        ELSE IF _strip_ns(parsed.value.tag) # <<"bom">>
        THEN Raise("HTTPException", 400, DetailNotBom)
        ELSE Return(bom_info(parsed.value))

----------------------------------------------------------------------------
(* The documents the interpreter is applied to (SpecParse) *)

NsUri == "http://cyclonedx.org/schema/bom/1.4"

\* the tag ElementTree gives an element: "{uri}local" when namespace-qualified
QTag(ns, local) == IF ns THEN <<"{", NsUri, "}", local>> ELSE <<local>>

Attrib(pairs) == [a \in AttrNames |-> IF a \in DOMAIN pairs THEN Some(pairs[a]) ELSE None]

TextChars == {" ", "x"}
Texts == {s \in SeqsUpTo(TextChars, MaxTextLen) : Len(s) > 0}

TextEl(ns, local, text) == El(QTag(ns, local), NoAttrib, text, <<>>)

\* zero or one child <local>: absent, present and empty, or present with a text
OptTextEls(ns, local, texts) ==
    {<<>>, <<TextEl(ns, local, None)>>} \cup {<<TextEl(ns, local, Some(t))>> : t \in texts}

LibAttrib == Attrib(("type" :> "library") @@ ("bom-ref" :> "c1"))

\* <component> elements: every shape of the name child, a few of the others
WideComponents(ns) ==
    {El(QTag(ns, "component"), at, None, n \o v \o p) :
        at \in {NoAttrib, LibAttrib},
        n \in OptTextEls(ns, "name", Texts),
        v \in OptTextEls(ns, "version", {<<" ">>, <<"2.0">>}),
        p \in OptTextEls(ns, "purl", {<<"\n", "pkg:x", " ">>})}

CoreComponents(ns) ==
    {El(QTag(ns, "component"), LibAttrib, None, <<TextEl(ns, "name", Some(<<"libx">>))>>),
     El(QTag(ns, "component"), NoAttrib, None, <<TextEl(ns, "name", Some(<<"y">>))>>),
     El(QTag(ns, "service"), NoAttrib, None, <<TextEl(ns, "name", Some(<<"svc">>))>>)}

ComponentLists(ns) ==
    {<<c>> : c \in WideComponents(ns)} \cup SeqsUpTo(CoreComponents(ns), MaxItems)

\* <license> elements: every combination of id / name / text children
Licenses(ns) ==
    {El(QTag(ns, "license"), NoAttrib, None, i \o n \o t) :
        i \in OptTextEls(ns, "id", {<<" ">>, <<" ", "MIT", " ">>}),
        n \in OptTextEls(ns, "name", {<<"\t">>, <<"Apache">>}),
        t \in OptTextEls(ns, "text", {<<"blah">>})}

CoreLicenses(ns) ==
    {El(QTag(ns, "license"), NoAttrib, None, <<TextEl(ns, "id", Some(<<"MIT">>))>>),
     El(QTag(ns, "license"), NoAttrib, None, <<TextEl(ns, "name", Some(<<"Apache">>))>>),
     El(QTag(ns, "license"), NoAttrib, None, <<>>),
     El(QTag(ns, "expression"), NoAttrib, Some(<<"MIT OR Apache">>), <<>>)}

LicenseLists(ns) ==
    {<<l>> : l \in Licenses(ns)} \cup SeqsUpTo(CoreLicenses(ns), MaxItems)

LicensedComponents(ns) ==
    {El(QTag(ns, "component"), LibAttrib, None,
        <<TextEl(ns, "name", Some(<<"libx">>)), El(QTag(ns, "licenses"), NoAttrib, None, ls)>>) :
        ls \in LicenseLists(ns)}

\* <tool> elements and lists of them
WideTools(ns) ==
    {El(QTag(ns, "tool"), NoAttrib, None, v \o n \o w) :
        v \in OptTextEls(ns, "vendor", Texts),
        n \in OptTextEls(ns, "name", {<<"scanner">>}),
        w \in {<<>>, <<TextEl(ns, "version", Some(<<" ", "1.0">>))>>}}

CoreTools(ns) ==
    {El(QTag(ns, "tool"), NoAttrib, None,
        <<TextEl(ns, "vendor", Some(<<"acme">>)), TextEl(ns, "name", Some(<<"scanner">>))>>),
     El(QTag(ns, "tool"), NoAttrib, None, <<>>),
     El(QTag(ns, "components"), NoAttrib, None, <<>>)}

ToolLists(ns) == {<<t>> : t \in WideTools(ns)} \cup SeqsUpTo(CoreTools(ns), MaxItems)

\* the children of <metadata>: one part varied at a time
MetadataChildren(ns) ==
    {ts : ts \in OptTextEls(ns, "timestamp", Texts)}
    \cup {<<El(QTag(ns, "tools"), NoAttrib, None, tl)>> : tl \in ToolLists(ns)}
    \cup {<<c>> : c \in WideComponents(ns)}
    \cup {<<TextEl(ns, "timestamp", Some(<<"2024-01-01T00:00:00Z">>)),
            El(QTag(ns, "tools"), NoAttrib, None, tl), c>> :
            tl \in SeqsUpTo(CoreTools(ns), 1),
            c \in {El(QTag(ns, "component"), LibAttrib, None, <<>>)}}

\* nested <dependency> children: with a ref, with an empty ref, without one
NestedDependencies(ns) ==
    {El(QTag(ns, "dependency"), Attrib("ref" :> "B"), None, <<>>),
     El(QTag(ns, "dependency"), Attrib("ref" :> "A"), None, <<>>),
     El(QTag(ns, "dependency"), Attrib("ref" :> ""), None, <<>>),
     El(QTag(ns, "dependency"), NoAttrib, None, <<>>),
     El(QTag(ns, "provides"), Attrib("ref" :> "P"), None, <<>>)}

WideDependencies(ns) ==
    {El(QTag(ns, "dependency"), at, None, ds) :
        at \in {NoAttrib, Attrib("ref" :> "A"), Attrib("ref" :> ""), Attrib("ref" :> "zz")},
        ds \in SeqsUpTo(NestedDependencies(ns), MaxItems)}

CoreDependencies(ns) ==
    {El(QTag(ns, "dependency"), Attrib("ref" :> "A"), None,
        <<El(QTag(ns, "dependency"), Attrib("ref" :> "B"), None, <<>>),
          El(QTag(ns, "dependency"), NoAttrib, None, <<>>)>>),
     El(QTag(ns, "dependency"), Attrib("ref" :> "A"), None,
        <<El(QTag(ns, "dependency"), Attrib("ref" :> "B"), None, <<>>),
          El(QTag(ns, "dependency"), NoAttrib, None, <<>>),
          El(QTag(ns, "dependency"), Attrib("ref" :> ""), None, <<>>),
          El(QTag(ns, "dependency"), Attrib("ref" :> "A"), None, <<>>)>>),
     El(QTag(ns, "dependency"), Attrib("ref" :> "B"), None, <<>>),
     El(QTag(ns, "other"), Attrib("ref" :> "C"), None, <<>>)}

DependencyLists(ns) ==
    {<<d>> : d \in WideDependencies(ns)} \cup SeqsUpTo(CoreDependencies(ns), MaxItems)

BomAttribs ==
    {NoAttrib,
     Attrib(("serialNumber" :> "urn:uuid:1") @@ ("version" :> "1")),
     Attrib("serialNumber" :> "")}

\* the children of a <bom>: one section varied at a time
BomChildren(ns) ==
    {<<>>}
    \cup {<<El(QTag(ns, "components"), NoAttrib, None, cs)>> : cs \in ComponentLists(ns)}
    \cup {<<El(QTag(ns, "components"), NoAttrib, None, <<c>>)>> : c \in LicensedComponents(ns)}
    \cup {<<El(QTag(ns, "metadata"), NoAttrib, None, m)>> : m \in MetadataChildren(ns)}
    \cup {<<El(QTag(ns, "dependencies"), NoAttrib, None, ds)>> : ds \in DependencyLists(ns)}
    \cup {<<El(QTag(ns, "metadata"), NoAttrib, None, <<>>),
            El(QTag(ns, "components"), NoAttrib, None, cs),
            El(QTag(ns, "dependencies"), NoAttrib, None, ds)>> :
            cs \in SeqsUpTo(CoreComponents(ns), 1), ds \in SeqsUpTo(CoreDependencies(ns), 1)}

\* the end-to-end document of the specification (section 8)
ExampleRoot ==
    El(<<"bom">>, Attrib(("serialNumber" :> "urn:uuid:1") @@ ("version" :> "1")), None,
       <<El(<<"components">>, NoAttrib, None,
            <<El(<<"component">>, LibAttrib, None,
                 <<TextEl(FALSE, "name", Some(<<"libx">>)),
                   TextEl(FALSE, "version", Some(<<"2.0">>))>>)>>)>>)

\* an SPDX RDF/XML root
RdfRoot ==
    El(<<"{", "http://www.w3.org/1999/02/22-rdf-syntax-ns#", "}", "RDF">>, NoAttrib, None,
       <<El(<<"{", "http://spdx.org/rdf/terms#", "}", "SpdxDocument">>, NoAttrib, None, <<>>)>>)

BomRoots ==
    {El(QTag(rootns, "bom"), at, None, ch) :
        rootns \in BOOLEAN, at \in BomAttribs, ch \in BomChildren(FALSE) \cup BomChildren(TRUE)}

NonBomRoots ==
    {RdfRoot}
    \cup {El(QTag(rootns, local), at, None, ch) :
            rootns \in BOOLEAN, local \in {"Bom", "boms", "components", "SpdxDocument"},
            at \in BomAttribs, ch \in {<<>>, ExampleRoot.children}}

Encodings == {"utf-8", "shift_jis"}

ParseInputs ==
    {Bytes(200, enc, Some(root)) :
        enc \in Encodings, root \in BomRoots \cup NonBomRoots \cup {ExampleRoot}}
    \cup {Bytes(n, enc, None) : n \in {0, 200}, enc \in Encodings}

----------------------------------------------------------------------------
(* SpecParse: parse_cyclonedx_xml applied to every document of ParseInputs *)

Pending == [kind |-> "pending"]

InitParse ==
    /\ InitUploads
    /\ xml_bytes \in ParseInputs
    /\ cdx_ret = Pending

ParseCall ==
    /\ cdx_ret.kind = "pending"
    /\ cdx_ret' = parse_cyclonedx_xml(xml_bytes)
    /\ UNCHANGED <<xml_bytes, upload_vars>>

NextParse == ParseCall

SpecParse == InitParse /\ [][NextParse]_vars

----------------------------------------------------------------------------
(* File names: os.path.splitext and str.lower on token strings *)

\* the last index of token t in p, 0 when there is none (rfind)
rfind(p, t) ==
    IF \E i \in 1..Len(p) : p[i] = t THEN SetMax({i \in 1..Len(p) : p[i] = t}) ELSE 0

\* os.path.splitext: the extension starts at the last "." after the last "/",
\* unless only dots precede it in the file name
splitext(p) ==
    LET sepIndex == rfind(p, "/")
        dotIndex == rfind(p, ".")
    IN  IF dotIndex > sepIndex /\ \E k \in (sepIndex + 1)..(dotIndex - 1) : p[k] # "."
        THEN <<SubSeq(p, 1, dotIndex - 1), SubSeq(p, dotIndex, Len(p))>>
        ELSE <<p, <<>>>>

lower_token(t) ==
    CASE t = "XML" -> "xml"
      [] t = "Xml" -> "xml"
      [] t = "JSON" -> "json"
      [] OTHER -> t

\* str.lower()
lower(s) == [i \in 1..Len(s) |-> lower_token(s[i])]

----------------------------------------------------------------------------
(* upload_sbom and parse_spdx *)

MAX_UPLOAD_BYTES == 5 * 1024 * 1024

\* line 206: len(content) > MAX_UPLOAD_BYTES, with the >= a slip would write
too_large_inclusive(c) == c.size >= MAX_UPLOAD_BYTES
too_large(c) == c.size > MAX_UPLOAD_BYTES

\* line 209
upload_ext(name) == lower(splitext(name)[2])

\* line 46: suffix = os.path.splitext(upload_filename)[1].lower() or ".txt"
staging_suffix(upload_filename) ==
    LET e == lower(splitext(upload_filename)[2])
    IN  IF Len(e) > 0 THEN e ELSE <<".", "txt">>

Stems == 1..MaxStems
Path(stem, suffix) == [stem |-> stem, suffix |-> suffix]
Exists(path) == \E f \in fs : f.path = path
FileAt(path) == CHOOSE f \in fs : f.path = path

\* line 48: NamedTemporaryFile opens a path that does not exist yet (O_EXCL);
\* a predictable or reused name is what the variant allows
mkstemp_any_name(suffix) == {Path(st, suffix) : st \in Stems}
mkstemp_candidates(suffix) == {Path(st, suffix) : st \in Stems} \ {f.path : f \in fs}

TemplateResponse(template, model, name) ==
    [kind |-> "template", template |-> template, model |-> model, filename |-> name]

\* line 231: the combined error raised once the SPDX path has failed
UnrecognizedFormat(e) ==
    [kind |-> "raise", exc |-> "HTTPException", status |-> 400,
     detail |-> "cannot determine or parse SBOM", cause |-> e.exc]

\* lines 203-204: filename = file.filename or "uploaded"; content = await file.read()
Receive(r, names, uploads) ==
    /\ pc[r] = "idle"
    /\ \E raw \in names, c \in uploads :
        /\ filename' = [filename EXCEPT ![r] = IF truthy(raw) THEN raw[1] ELSE <<"uploaded">>]
        /\ content' = [content EXCEPT ![r] = c]
    /\ pc' = [pc EXCEPT ![r] = "size_check"]
    /\ UNCHANGED <<response, fs, tmp_name, spdx_out, cdx_out, spdx_args, created,
                   file_read, removed, parse_vars>>

\* lines 206-207
SizeCheck(r) ==
    /\ pc[r] = "size_check"
    /\ IF too_large(content[r])
       THEN /\ response' = [response EXCEPT ![r] =
                                Some(Raise("HTTPException", 413, "file too large"))]
            /\ pc' = [pc EXCEPT ![r] = "done"]
       ELSE /\ pc' = [pc EXCEPT ![r] = "dispatch"]
            /\ UNCHANGED response
    /\ UNCHANGED <<filename, content, fs, tmp_name, spdx_out, cdx_out, spdx_args, created,
                   file_read, removed, parse_vars>>

\* lines 209-221: the CycloneDX attempt for a .xml name; only HTTPException is
\* caught, any other exception of parse_cyclonedx_xml leaves upload_sbom
TryCycloneDX(r) ==
    /\ pc[r] = "dispatch"
    /\ IF upload_ext(filename[r]) = <<".", "xml">>
       THEN LET ret == parse_cyclonedx_xml(content[r])
            IN  /\ cdx_out' = [cdx_out EXCEPT ![r] = Some(ret)]
                /\ CASE ret.kind = "return" ->
                          /\ response' = [response EXCEPT ![r] =
                                Some(TemplateResponse("report_cyclonedx.html", ret.value,
                                                      filename[r]))]
                          /\ pc' = [pc EXCEPT ![r] = "done"]
                     [] ret.kind = "raise" /\ ret.exc = "HTTPException" ->
                          /\ pc' = [pc EXCEPT ![r] = "spdx"]
                          /\ UNCHANGED response
                     [] OTHER ->
                          /\ response' = [response EXCEPT ![r] = Some(ret)]
                          /\ pc' = [pc EXCEPT ![r] = "done"]
       ELSE /\ pc' = [pc EXCEPT ![r] = "spdx"]
            /\ UNCHANGED <<response, cdx_out>>
    /\ UNCHANGED <<filename, content, fs, tmp_name, spdx_out, spdx_args, created,
                   file_read, removed, parse_vars>>

\* lines 225, 46-48: parse_spdx(filename, content) is entered and
\* NamedTemporaryFile(delete=False, suffix=suffix) creates the staging file
SpdxCreate(r) ==
    /\ pc[r] = "spdx"
    /\ \E path \in mkstemp_candidates(staging_suffix(filename[r])) :
        /\ fs' = {f \in fs : f.path # path}
                    \cup {[path |-> path, data |-> None, writer |-> r]}
        /\ tmp_name' = [tmp_name EXCEPT ![r] = Some(path)]
    /\ spdx_args' = [spdx_args EXCEPT ![r] = Some(<<filename[r], content[r]>>)]
    /\ created' = [created EXCEPT ![r] = @ + 1]
    /\ pc' = [pc EXCEPT ![r] = "spdx_write"]
    /\ UNCHANGED <<filename, content, response, spdx_out, cdx_out, file_read, removed,
                   parse_vars>>

\* lines 49-50: tmp.write(content) succeeds; the with block closes the file
SpdxWriteOk(r) ==
    /\ pc[r] = "spdx_write"
    /\ fs' = {IF f.path = tmp_name[r][1] THEN [f EXCEPT !.data = Some(content[r])] ELSE f :
                f \in fs}
    /\ pc' = [pc EXCEPT ![r] = "spdx_parse"]
    /\ UNCHANGED <<filename, content, response, tmp_name, spdx_out, cdx_out, spdx_args,
                   created, file_read, removed, parse_vars>>

\* line 49: tmp.write(content) raises OSError (disk full): the with block
\* closes the file and, with delete=False, leaves it; the try/finally of lines
\* 52-59 is never entered and the error reaches line 230 of upload_sbom
SpdxWriteFails(r) ==
    /\ pc[r] = "spdx_write"
    /\ response' = [response EXCEPT ![r] =
                        Some(UnrecognizedFormat(Raise("OSError", 0, "no space left")))]
    /\ pc' = [pc EXCEPT ![r] = "done"]
    /\ UNCHANGED <<filename, content, fs, tmp_name, spdx_out, cdx_out, spdx_args,
                   created, file_read, removed, parse_vars>>

\* line 53: parse_file(tmp_path) reads the staged file and returns a document
SpdxParseFileOk(r) ==
    /\ pc[r] = "spdx_parse"
    /\ Exists(tmp_name[r][1])
    /\ file_read' = [file_read EXCEPT ![r] = Some(FileAt(tmp_name[r][1]))]
    /\ spdx_out' = [spdx_out EXCEPT ![r] =
                        Some(Return([document_of |-> FileAt(tmp_name[r][1]).data]))]
    /\ pc' = [pc EXCEPT ![r] = "spdx_adapt"]
    /\ UNCHANGED <<filename, content, response, fs, tmp_name, cdx_out, spdx_args,
                   created, removed, parse_vars>>

\* line 53: parse_file(tmp_path) raises (not an SPDX document, or no file)
SpdxParseFileFails(r) ==
    /\ pc[r] = "spdx_parse"
    /\ file_read' = [file_read EXCEPT ![r] =
                        IF Exists(tmp_name[r][1]) THEN Some(FileAt(tmp_name[r][1])) ELSE @]
    /\ spdx_out' = [spdx_out EXCEPT ![r] =
                        Some(Raise("SPDXParsingError", 0, "not an SPDX document"))]
    /\ pc' = [pc EXCEPT ![r] = "spdx_finally"]
    /\ UNCHANGED <<filename, content, response, fs, tmp_name, cdx_out, spdx_args,
                   created, removed, parse_vars>>

\* line 54, lines 12-39: spdx_doc_to_viewmodel(doc) returns the view model
SpdxAdaptOk(r) ==
    /\ pc[r] = "spdx_adapt"
    /\ spdx_out' = [spdx_out EXCEPT ![r] =
                        Some(Return([viewmodel_of |-> spdx_out[r][1].value.document_of]))]
    /\ pc' = [pc EXCEPT ![r] = "spdx_finally"]
    /\ UNCHANGED <<filename, content, response, fs, tmp_name, cdx_out, spdx_args,
                   created, file_read, removed, parse_vars>>

\* line 54, lines 12-39: spdx_doc_to_viewmodel(doc) raises on an attribute the
\* parsed document does not have
SpdxAdaptFails(r) ==
    /\ pc[r] = "spdx_adapt"
    /\ spdx_out' = [spdx_out EXCEPT ![r] =
                        Some(Raise("AttributeError", 0, "no such attribute"))]
    /\ pc' = [pc EXCEPT ![r] = "spdx_finally"]
    /\ UNCHANGED <<filename, content, response, fs, tmp_name, cdx_out, spdx_args,
                   created, file_read, removed, parse_vars>>

\* lines 55-59 and 226-231: os.remove(tmp_path) (an OSError is swallowed), then
\* parse_spdx returns or re-raises and upload_sbom answers
SpdxFinally(r) ==
    /\ pc[r] = "spdx_finally"
    /\ fs' = {f \in fs : f.path # tmp_name[r][1]}
    /\ removed' = [removed EXCEPT ![r] =
                        @ \cup {f.writer : f \in {g \in fs : g.path = tmp_name[r][1]}}]
    /\ response' = [response EXCEPT ![r] =
                        IF spdx_out[r][1].kind = "return"
                        THEN Some(TemplateResponse("report_spdx.html",
                                                   spdx_out[r][1].value, filename[r]))
                        ELSE Some(UnrecognizedFormat(spdx_out[r][1]))]
    /\ pc' = [pc EXCEPT ![r] = "done"]
    /\ UNCHANGED <<filename, content, tmp_name, spdx_out, cdx_out, spdx_args, created,
                   file_read, parse_vars>>

\* every step of one request but its receipt
Step(r) ==
    \/ SizeCheck(r)
    \/ TryCycloneDX(r)
    \/ SpdxCreate(r)
    \/ SpdxWriteOk(r)
    \/ SpdxWriteFails(r)
    \/ SpdxParseFileOk(r)
    \/ SpdxParseFileFails(r)
    \/ SpdxAdaptOk(r)
    \/ SpdxAdaptFails(r)
    \/ SpdxFinally(r)

(* The uploads *)

UploadNames ==
    {None, Some(<<>>), Some(<<"a", ".", "xml">>), Some(<<"a", ".", "XML">>),
     Some(<<"b", ".", "Xml">>), Some(<<"a", ".", "json">>), Some(<<"a">>),
     Some(<<".", "xml">>), Some(<<"a", ".", "xml", ".", "bak">>),
     Some(<<"d", ".", "xml", "/", "a">>)}

UploadSizes == {200, MAX_UPLOAD_BYTES - 1, MAX_UPLOAD_BYTES, MAX_UPLOAD_BYTES + 1}

Uploads ==
    {Bytes(n, enc, doc) :
        n \in UploadSizes, enc \in Encodings,
        doc \in {None, Some(ExampleRoot), Some(RdfRoot)}}
    \cup {Bytes(0, "utf-8", None)}

\* Spec: one upload, every file name and content
Init ==
    /\ InitUploads
    /\ xml_bytes = Bytes(0, "utf-8", None)
    /\ cdx_ret = Pending

Next == Receive(1, UploadNames, Uploads) \/ Step(1)

Spec == Init /\ [][Next]_vars

\* SpecConcurrent: MaxRequests uploads interleaved step by step (worker
\* processes sharing one staging directory), on the uploads that differ in how
\* they reach the staging directory
ConcurrentNames == {Some(<<"a", ".", "xml">>), Some(<<"a", ".", "json">>)}

ConcurrentUploads ==
    {Bytes(200, "utf-8", Some(ExampleRoot)), Bytes(300, "utf-8", Some(RdfRoot))}

NextConcurrent ==
    \E r \in Requests : Receive(r, ConcurrentNames, ConcurrentUploads) \/ Step(r)

SpecConcurrent == Init /\ [][NextConcurrent]_vars

----------------------------------------------------------------------------
(* Properties of a document, stated on the tree itself *)

\* the local name of a tag: its last token
LocalName(tag) == tag[Len(tag)]

ChildrenNamed(el, local) == SelectSeq(el.children, LAMBDA ch : LocalName(ch.tag) = local)
HasChild(el, local) == Len(ChildrenNamed(el, local)) > 0
FirstChild(el, local) == ChildrenNamed(el, local)[1]

\* the text of the first child <local>, "" when the child or its text is missing
ChildText(el, local) ==
    IF HasChild(el, local) /\ ~IsNone(FirstChild(el, local).text)
    THEN FirstChild(el, local).text[1] ELSE <<>>

RECURSIVE TrimLeft(_)
TrimLeft(s) == IF s # <<>> /\ Head(s) \in Whitespace THEN TrimLeft(Tail(s)) ELSE s

RECURSIVE TrimRight(_)
TrimRight(s) ==
    IF s # <<>> /\ s[Len(s)] \in Whitespace THEN TrimRight(SubSeq(s, 1, Len(s) - 1)) ELSE s

Trimmed(s) == TrimRight(TrimLeft(s))

\* a child <local> is populated: something is left of its text once trimmed
Populated(el, local) == Trimmed(ChildText(el, local)) # <<>>

\* a text value is null, or a non-empty string without surrounding whitespace
IsNormalText(o) ==
    \/ IsNone(o)
    \/ /\ Len(o[1]) > 0
       /\ o[1][1] \notin Whitespace
       /\ o[1][Len(o[1])] \notin Whitespace

Called == cdx_ret.kind # "pending"
Returned == cdx_ret.kind = "return"
Root == xml_bytes.doc[1]
WellFormed == ~IsNone(xml_bytes.doc)
Decoded == ET_fromstring(xml_bytes).kind = "return"

\* the source elements behind the output's components, edges and tools
SrcComponents ==
    IF HasChild(Root, "components")
    THEN ChildrenNamed(FirstChild(Root, "components"), "component") ELSE <<>>

SrcDependencies ==
    IF HasChild(Root, "dependencies")
    THEN ChildrenNamed(FirstChild(Root, "dependencies"), "dependency") ELSE <<>>

SrcTools ==
    IF HasChild(Root, "metadata") /\ HasChild(FirstChild(Root, "metadata"), "tools")
    THEN ChildrenNamed(FirstChild(FirstChild(Root, "metadata"), "tools"), "tool") ELSE <<>>

----------------------------------------------------------------------------
(* C5 *)

\* C5: for every well-formed XML document whose root's local name is not bom
\* (namespace-qualified or not), parse_cyclonedx_xml fails with FormatMismatch
\* (the 400 "not a bom root" error), never with ParseError, and the two
\* outcomes are distinguishable.
C5_NonBomRootFormatMismatch ==
    (Called /\ WellFormed /\ LocalName(Root.tag) # "bom")
        => /\ cdx_ret.kind = "raise"
           /\ cdx_ret.exc = "HTTPException"
           /\ cdx_ret.detail = DetailNotBom
           /\ cdx_ret.detail # DetailParseError

----------------------------------------------------------------------------
(* C6 *)

ExampleComponent ==
    ("type" :> Some("library")) @@ ("bom-ref" :> Some("c1"))
    @@ ("name" :> Some(<<"libx">>)) @@ ("version" :> Some(<<"2.0">>))
    @@ ("purl" :> None) @@ ("licenses" :> <<>>)

\* the optional fields of one output component default to null / empty
ComponentDefaults(src, out) ==
    /\ (IsNone(src.attrib["type"]) => IsNone(out["type"]))
    /\ (IsNone(src.attrib["bom-ref"]) => IsNone(out["bom-ref"]))
    /\ \A f \in {"name", "version", "purl"} : ~HasChild(src, f) => IsNone(out[f])
    /\ (~HasChild(src, "licenses") => Len(out["licenses"]) = 0)

\* C6: for every well-formed document whose root is bom, parse_cyclonedx_xml
\* returns (it never raises for a missing optional element) and every optional
\* field defaults: absent attributes and text children are null; absent
\* components, dependencies, licenses and metadata tools are empty sequences;
\* the end-to-end document yields serialNumber "urn:uuid:1", the one component
\* libx, empty dependencies and empty tools.
C6_OptionalFieldsDefault ==
    (Called /\ Decoded /\ LocalName(Root.tag) = "bom")
        => /\ Returned
           /\ LET r == cdx_ret.value
              IN  /\ (IsNone(Root.attrib["serialNumber"]) => IsNone(r.serialNumber))
                  /\ (IsNone(Root.attrib["version"]) => IsNone(r.version))
                  /\ (~HasChild(Root, "components") => Len(r.components) = 0)
                  /\ (~HasChild(Root, "dependencies") => Len(r.dependencies) = 0)
                  /\ Len(r.components) = Len(SrcComponents)
                  /\ \A i \in 1..Len(r.components) :
                        ComponentDefaults(SrcComponents[i], r.components[i])
                  /\ "tools" \in DOMAIN r.metadata
                  /\ (Len(SrcTools) = 0 => Len(r.metadata.tools) = 0)
                  /\ (Root = ExampleRoot =>
                        /\ r.serialNumber = Some("urn:uuid:1")
                        /\ Len(r.components) = 1
                        /\ r.components[1] = ExampleComponent
                        /\ Len(r.dependencies) = 0
                        /\ Len(r.metadata.tools) = 0)

----------------------------------------------------------------------------
(* C7 *)

\* every text field of the output
OutputTextFields(r) ==
    {r.components[i][f] : i \in 1..Len(r.components), f \in {"name", "version", "purl"}}
    \cup (IF "timestamp" \in DOMAIN r.metadata
          THEN {r.metadata.timestamp}
               \cup {r.metadata.tools[i][f] :
                        i \in 1..Len(r.metadata.tools), f \in {"vendor", "name", "version"}}
          ELSE {})

\* C7: every extracted text field is null or the source text with its
\* surrounding whitespace removed; a child that is present but empty once
\* trimmed yields null as an absent one does, so no output text field is an
\* empty or whitespace-padded string.
C7_TextFieldsNormalized ==
    Returned
        => /\ \A o \in OutputTextFields(cdx_ret.value) : IsNormalText(o)
           /\ \A i \in 1..Len(cdx_ret.value.components) :
                \A f \in {"name", "version", "purl"} :
                    LET t == Trimmed(ChildText(SrcComponents[i], f))
                    IN  cdx_ret.value.components[i][f] = IF t = <<>> THEN None ELSE Some(t)

----------------------------------------------------------------------------
(* C8 *)

\* the licenses the claim prescribes for the children of a <licenses> element
RECURSIVE LicenseStrings(_)
LicenseStrings(ls) ==
    IF ls = <<>> THEN <<>>
    ELSE LET l == Head(ls)
             rest == LicenseStrings(Tail(ls))
         IN  IF LocalName(l.tag) # "license" THEN rest
             ELSE IF Populated(l, "id") THEN <<Trimmed(ChildText(l, "id"))>> \o rest
             ELSE IF Populated(l, "name") THEN <<Trimmed(ChildText(l, "name"))>> \o rest
             ELSE IF HasChild(l, "text") THEN <<LicenseTextPlaceholder>> \o rest
             ELSE rest

SrcLicenses(c) ==
    IF HasChild(c, "licenses") THEN FirstChild(c, "licenses").children ELSE <<>>

\* C8: for each <license> child of a component's <licenses>, the output string
\* is the id text if populated, else the name text if populated, else the
\* placeholder "(license text)" if a text child is present at all, else the
\* entry is dropped; the licenses are non-empty strings, in document order,
\* at most one per <license>.
C8_LicensePrecedence ==
    Returned
        => /\ Len(cdx_ret.value.components) = Len(SrcComponents)
           /\ \A i \in 1..Len(SrcComponents) :
                LET out == cdx_ret.value.components[i]["licenses"]
                    want == LicenseStrings(SrcLicenses(SrcComponents[i]))
                IN  /\ Len(out) = Len(want)
                    /\ \A k \in 1..Len(out) : out[k] = want[k] /\ out[k] # <<>>
                    /\ Len(out) <= Len(ChildrenNamed(
                                        [children |-> SrcLicenses(SrcComponents[i])], "license"))

\* a component with a license that has both id and name populated, one with
\* only a text child, and one that is dropped, has been interpreted
C8_Witness ==
    /\ Returned
    /\ \E i \in 1..Len(SrcComponents) :
        LET ls == SrcLicenses(SrcComponents[i])
        IN  /\ \E k \in 1..Len(ls) : Populated(ls[k], "id") /\ Populated(ls[k], "name")
            /\ cdx_ret.value.components[i]["licenses"] = <<<<"MIT">>>>

----------------------------------------------------------------------------
(* C9 *)

\* the refs of the nested <dependency> children that have a ref attribute
\* (with allowEmpty) or a non-empty one (without)
RECURSIVE NestedRefs(_, _)
NestedRefs(ds, allowEmpty) ==
    IF ds = <<>> THEN <<>>
    ELSE LET d == Head(ds)
             rest == NestedRefs(Tail(ds), allowEmpty)
         IN  IF /\ LocalName(d.tag) = "dependency"
                /\ ~IsNone(d.attrib["ref"])
                /\ (allowEmpty \/ d.attrib["ref"][1] # "")
             THEN <<d.attrib["ref"][1]>> \o rest ELSE rest

EdgesAre(allowEmpty) ==
    Returned
        => /\ Len(cdx_ret.value.dependencies) = Len(SrcDependencies)
           /\ \A i \in 1..Len(SrcDependencies) :
                LET edge == cdx_ret.value.dependencies[i]
                    want == NestedRefs(SrcDependencies[i].children, allowEmpty)
                IN  /\ edge.ref = SrcDependencies[i].attrib["ref"]
                    /\ Len(edge.dependsOn) = Len(want)
                    /\ \A k \in 1..Len(want) : edge.dependsOn[k] = want[k]

\* C9 (as claimed): each <dependency> child of <dependencies> yields one edge,
\* in document order, whose ref is its ref attribute and whose dependsOn is the
\* refs, in order, of exactly the nested <dependency> children that have a ref
\* attribute.
C9_DependsOnEveryRef == EdgesAre(TRUE)

\* C9 (amended): ... of exactly the nested <dependency> children whose ref
\* attribute is present and not the empty string; dependsOn never contains
\* null, and dangling or self-referencing values pass through unchanged.
C9_DependsOnNonEmptyRefs == EdgesAre(FALSE)

\* the edge of <dependency ref="A"> with the nested children ref="B", no ref,
\* ref="" and ref="A" (a self-reference) has been extracted as dependsOn [B, A]
C9_Witness ==
    /\ Returned
    /\ \E i \in 1..Len(SrcDependencies) :
        /\ SrcDependencies[i].attrib["ref"] = Some("A")
        /\ Len(SrcDependencies[i].children) = 4
        /\ SrcDependencies[i].children[1].attrib["ref"] = Some("B")
        /\ IsNone(SrcDependencies[i].children[2].attrib["ref"])
        /\ SrcDependencies[i].children[3].attrib["ref"] = Some("")
        /\ cdx_ret.value.dependencies[i].ref = Some("A")
        /\ cdx_ret.value.dependencies[i].dependsOn = <<"B", "A">>

----------------------------------------------------------------------------
(* Properties of an upload, stated on the request's input *)

FiveMiB == 5 * 1024 * 1024

WithinLimit(r) == content[r].size <= FiveMiB
Done(r) == pc[r] = "done"
Reply(r) == response[r][1]

\* the file name ends in ".xml", whatever the case of the letters
IsXmlName(name) ==
    /\ Len(name) >= 3
    /\ name[Len(name) - 1] = "."
    /\ name[Len(name)] \in {"xml", "XML", "Xml"}
    /\ name[1] # "."

\* the CycloneDX interpreter cannot interpret the content: the XML parser
\* rejects it, or the root is not a bom
InterpreterFails(c) ==
    \/ c.encoding \notin SupportedEncodings
    \/ IsNone(c.doc)
    \/ LocalName(c.doc[1].tag) # "bom"

IsPayloadTooLarge(resp) ==
    resp.kind = "raise" /\ resp.exc = "HTTPException" /\ resp.status = 413

IsUnrecognizedFormat(resp) ==
    /\ resp.kind = "raise"
    /\ resp.exc = "HTTPException"
    /\ resp.status = 400
    /\ resp.detail = "cannot determine or parse SBOM"

FilesOf(r) == {f \in fs : f.writer = r}

----------------------------------------------------------------------------
(* C1 *)

\* C1: for an upload within the size limit whose extension is .xml (in any
\* case), a failure of the CycloneDX interpreter never ends the request:
\* parse_spdx is invoked with the original file name and the unchanged content.
C1_CycloneDXFailureFallsBack ==
    \A r \in Requests :
        (Done(r) /\ WithinLimit(r) /\ IsXmlName(filename[r]) /\ InterpreterFails(content[r]))
            => spdx_args[r] = Some(<<filename[r], content[r]>>)

----------------------------------------------------------------------------
(* C2 *)

\* C2: whenever parse_spdx has created a staging file, the file no longer
\* exists once parse_spdx has returned or raised, wherever the failure happened
\* (writing the content, parse_file, spdx_doc_to_viewmodel).
C2_StagingFileRemoved ==
    \A r \in Requests : (Done(r) /\ created[r] > 0) => FilesOf(r) = {}

----------------------------------------------------------------------------
(* C3 *)

\* C3: for an upload within the size limit, a request ends in exactly one of a
\* CycloneDX view model, an SPDX view model, or the combined UnrecognizedFormat
\* error raised after the SPDX path failed; an error of the CycloneDX
\* interpreter is never what the caller receives.
C3_OnlyUnrecognizedFormatSurfaces ==
    \A r \in Requests :
        (Done(r) /\ WithinLimit(r))
            => \/ /\ Reply(r).kind = "template"
                  /\ Reply(r).template = "report_cyclonedx.html"
                  /\ Reply(r).model = bom_info(content[r].doc[1])
                  /\ IsNone(spdx_args[r])
               \/ /\ Reply(r).kind = "template"
                  /\ Reply(r).template = "report_spdx.html"
                  /\ spdx_out[r][1].kind = "return"
                  /\ Reply(r).model = spdx_out[r][1].value
               \/ /\ IsUnrecognizedFormat(Reply(r))
                  /\ ~IsNone(spdx_args[r])
                  /\ Reply(r).cause \notin {"HTTPException", "ParseError", "ValueError"}

----------------------------------------------------------------------------
(* C4 *)

\* C4: a payload of exactly 5 MiB is accepted and one of 5 MiB + 1 byte is
\* rejected with PayloadTooLarge (413); for an oversized payload the rejection
\* comes before any parsing: neither parse_cyclonedx_xml nor parse_spdx is
\* invoked and no staging file is created.
C4_SizeGuard ==
    \A r \in Requests :
        pc[r] # "idle"
            => /\ content[r].size > FiveMiB
                    => /\ pc[r] \in {"size_check", "done"}
                       /\ IsNone(cdx_out[r])
                       /\ IsNone(spdx_args[r])
                       /\ created[r] = 0
                       /\ FilesOf(r) = {}
                       /\ (Done(r) => IsPayloadTooLarge(Reply(r)))
               /\ content[r].size <= FiveMiB
                    => (Done(r) => /\ ~IsPayloadTooLarge(Reply(r))
                                   /\ ~IsNone(cdx_out[r]) \/ ~IsNone(spdx_args[r]))

\* a payload of 5 MiB + 1 byte has been rejected with nothing parsed
C4_Witness ==
    \E r \in Requests :
        /\ Done(r)
        /\ content[r].size = FiveMiB + 1
        /\ IsPayloadTooLarge(Reply(r))
        /\ IsNone(cdx_out[r])
        /\ IsNone(spdx_args[r])

----------------------------------------------------------------------------
(* C10 *)

Staging(r) == pc[r] \in {"spdx_write", "spdx_parse", "spdx_adapt", "spdx_finally"}

\* C10: under any interleaving of uploads, a request on the SPDX path stages
\* its content in a file of its own (no other request creates, overwrites or
\* removes it while it exists), parse_file reads only the file the request
\* wrote, cleanup removes only the request's own file, at most one staging
\* file is created per upload, and none when the CycloneDX interpretation
\* succeeds.
C10_StagingIsolated ==
    \A r \in Requests :
        /\ Staging(r)
             => /\ Exists(tmp_name[r][1])
                /\ FileAt(tmp_name[r][1]).writer = r
                /\ \A q \in Requests \ {r} : Staging(q) => tmp_name[q] # tmp_name[r]
        /\ ~IsNone(file_read[r])
             => /\ file_read[r][1].writer = r
                /\ file_read[r][1].data = Some(content[r])
        /\ removed[r] \subseteq {r}
        /\ created[r] <= 1
        /\ Cardinality(FilesOf(r)) <= 1
        /\ (~IsNone(cdx_out[r]) /\ cdx_out[r][1].kind = "return")
             => created[r] = 0 /\ IsNone(spdx_args[r])

\* two requests with different contents hold staging files with the same
\* suffix at once, one of them already read by its parser
C10_Witness ==
    \E r, q \in Requests :
        /\ r # q
        /\ Staging(r) /\ Staging(q)
        /\ tmp_name[r][1].suffix = tmp_name[q][1].suffix
        /\ ~IsNone(file_read[r])
        /\ content[r] # content[q]

====
